---------------------------- MODULE Spec2Model ----------------------------
(***************************************************************************)
(* A model of CArgs (colinw7/CArgs): the option-definition compiler        *)
(* CArgs::setFormat and the two argument scanners CArgs::parse1 (argument  *)
(* array and string vector), with the per-kind value setters.              *)
(*                                                                         *)
(* A std::string is a sequence of one-character strings; an index i of the *)
(* C++ code (0-based) is kept 0-based here and read through At(s, i).      *)
(***************************************************************************)
EXTENDS Integers, Sequences, FiniteSets, TLC

VARIABLES
  def_,            \* CArgs::def_            the option definition string
  args_,           \* CArgs::args_           the descriptors, in declaration order
  formatError,     \* setFormat stopped at a CTHROW
  skip_remaining_, \* CArgs::skip_remaining_
  help_,           \* CArgs::help_
  pc,              \* "new" | "idle" | "scan" | "break" | "done" | "crashed"
  entry,           \* "array" (parse1(int*, char**, bool)) | "vector" (parse1(vector&, bool))
  update,          \* parse1's update parameter
  argv,            \* the caller's argument list (argc = Len(argv))
  i,               \* parse1's scan index, 0-based
  new_argv,        \* parse1's new_argv / new_args
  ret,             \* what the parse call returned (read when pc = "done"; FALSE until then)
  diag,            \* the kinds of diagnostics written to std::cerr by the current call
  oob,             \* the current call read a token at an index >= argc
  orig,            \* history: the argument list as the current call received it
  matched,         \* history: descriptors a token was matched to by the current call
  everMatched,     \* history: descriptors a token was matched to by any call
  startSet,        \* history: descriptors whose set_ was true when the current call began
  dashdash         \* history: the current call scanned a literal "--" token

vars == << def_, args_, formatError, skip_remaining_, help_, pc, entry, update,
           argv, i, new_argv, ret, diag, oob, orig, matched, everMatched, startSet,
           dashdash >>

-----------------------------------------------------------------------------
(* Characters and strings *)

Digits == {"0","1","2","3","4","5","6","7","8","9"}

UpperSeq == << "A","B","C","D","E","F","G","H","I","J","K","L","M",
               "N","O","P","Q","R","S","T","U","V","W","X","Y","Z" >>

LowerSeq == << "a","b","c","d","e","f","g","h","i","j","k","l","m",
               "n","o","p","q","r","s","t","u","v","w","x","y","z" >>

UpperChars == { UpperSeq[k] : k \in DOMAIN UpperSeq }

LowerChars == { LowerSeq[k] : k \in DOMAIN LowerSeq }

\* the character read at a position at or past the end of a std::string
NUL == "\\0"

\* s[i] of the C++ code: s[size()] is the terminating '\0'
At(s, n) == IF n >= 0 /\ n < Len(s) THEN s[n + 1] ELSE NUL

\* s.substr(pos, n): clamps at the end of the string
Substr(s, pos, n) ==
  LET last == IF pos + n > Len(s) THEN Len(s) ELSE pos + n
  IN  SubSeq(s, pos + 1, last)

isspace(c) == c \in {" ", "\t", "\n"}

isdigit(c) == c \in Digits

isalnum(c) == c \in Digits \cup UpperChars \cup LowerChars

tolower(c) ==
  IF c \in UpperChars
    THEN LowerSeq[CHOOSE k \in DOMAIN UpperSeq : UpperSeq[k] = c]
    ELSE c

\* CStrUtil::casecmp(a, b) == 0
casecmpEq(a, b) ==
  /\ Len(a) = Len(b)
  /\ \A k \in 1..Len(a) : tolower(a[k]) = tolower(b[k])

-----------------------------------------------------------------------------
(* Value coercion (CStrUtil) *)

RECURSIVE DigitsValue(_)
DigitsValue(s) ==
  IF s = << >> THEN 0
  ELSE 10 * DigitsValue(SubSeq(s, 1, Len(s) - 1))
         + (CHOOSE d \in 0..9 : At(<<"0","1","2","3","4","5","6","7","8","9">>, d) = s[Len(s)])

AllDigits(s) == s # << >> /\ \A k \in 1..Len(s) : isdigit(s[k])

Unsigned(s) == IF s # << >> /\ s[1] \in {"+", "-"} THEN Tail(s) ELSE s

\* CStrUtil::isInteger: an optional sign, then digits
isInteger(s) == AllDigits(Unsigned(s))

\* CStrUtil::toInteger
toInteger(s) ==
  IF s # << >> /\ s[1] = "-" THEN 0 - DigitsValue(Tail(s)) ELSE DigitsValue(Unsigned(s))

DotAt(s) == IF \E k \in 1..Len(s) : s[k] = "."
              THEN CHOOSE k \in 1..Len(s) : s[k] = "." /\ \A m \in 1..(k - 1) : s[m] # "."
              ELSE 0

\* CStrUtil::isReal: an optional sign, digits, an optional '.' and digits
isReal(s) ==
  LET u == Unsigned(s)
      d == DotAt(u)
  IN  IF d = 0 THEN AllDigits(u)
      ELSE LET ip == SubSeq(u, 1, d - 1)
               fp == SubSeq(u, d + 1, Len(u))
           IN  /\ ip \o fp # << >>
               /\ \A k \in 1..Len(ip) : isdigit(ip[k])
               /\ \A k \in 1..Len(fp) : isdigit(fp[k])

RECURSIVE StripZeros(_)
StripZeros(s) ==
  IF s # << >> /\ s[Len(s)] = "0" THEN StripZeros(SubSeq(s, 1, Len(s) - 1)) ELSE s

RECURSIVE Pow10(_)
Pow10(n) == IF n = 0 THEN 1 ELSE 10 * Pow10(n - 1)

\* CStrUtil::toReal: the double is kept as the exact decimal num / den
toReal(s) ==
  LET u   == Unsigned(s)
      d   == DotAt(u)
      ip  == IF d = 0 THEN u ELSE SubSeq(u, 1, d - 1)
      fp  == IF d = 0 THEN << >> ELSE StripZeros(SubSeq(u, d + 1, Len(u)))
      mag == DigitsValue(ip \o fp)
  IN  [ num |-> IF s # << >> /\ s[1] = "-" THEN 0 - mag ELSE mag,
        den |-> Pow10(Len(fp)) ]

Lowered(s) == [ k \in 1..Len(s) |-> tolower(s[k]) ]

BoolTrueWords == { <<"1">>, <<"t","r","u","e">>, <<"y","e","s">>, <<"o","n">> }

BoolFalseWords == { <<"0">>, <<"f","a","l","s","e">>, <<"n","o">>, <<"o","f","f">> }

\* CStrUtil::isBool
isBool(s) == Lowered(s) \in BoolTrueWords \cup BoolFalseWords

\* CStrUtil::toBool
toBool(s) == Lowered(s) \in BoolTrueWords

\* CStrUtil::addFields(str, words, " ,"): the non-empty fields between separators
RECURSIVE addFields(_, _, _)
addFields(s, cur, words) ==
  IF s = << >>
    THEN IF cur = << >> THEN words ELSE Append(words, cur)
    ELSE IF s[1] \in {" ", ","}
           THEN addFields(Tail(s), << >>, IF cur = << >> THEN words ELSE Append(words, cur))
           ELSE addFields(Tail(s), Append(cur, s[1]), words)

-----------------------------------------------------------------------------
(* Descriptors: class CArg and its six subclasses *)

\* CArg::CArg and the subclass constructors: value_ starts as the default
CArgBoolean(name, flags, defval, desc) ==
  [ name_ |-> name, type_ |-> "BOOLEAN", cls |-> "Boolean", flags_ |-> flags,
    attached_ |-> FALSE, set_ |-> FALSE, desc_ |-> desc,
    value_ |-> defval, defval_ |-> defval, choices_ |-> << >> ]

CArgInteger(name, flags, defval, attached, desc) ==
  [ name_ |-> name, type_ |-> "INTEGER", cls |-> "Integer", flags_ |-> flags,
    attached_ |-> attached, set_ |-> FALSE, desc_ |-> desc,
    value_ |-> defval, defval_ |-> defval, choices_ |-> << >> ]

CArgReal(name, flags, defval, attached, desc) ==
  [ name_ |-> name, type_ |-> "REAL", cls |-> "Real", flags_ |-> flags,
    attached_ |-> attached, set_ |-> FALSE, desc_ |-> desc,
    value_ |-> defval, defval_ |-> defval, choices_ |-> << >> ]

CArgString(name, flags, defval, attached, desc) ==
  [ name_ |-> name, type_ |-> "STRING", cls |-> "String", flags_ |-> flags,
    attached_ |-> attached, set_ |-> FALSE, desc_ |-> desc,
    value_ |-> defval, defval_ |-> defval, choices_ |-> << >> ]

\* values_ is default-constructed (empty); only defval_ takes the default
CArgStringList(name, flags, defval, attached, desc) ==
  [ name_ |-> name, type_ |-> "STRING", cls |-> "StringList", flags_ |-> flags,
    attached_ |-> attached, set_ |-> FALSE, desc_ |-> desc,
    value_ |-> << >>, defval_ |-> defval, choices_ |-> << >> ]

CArgChoice(name, flags, choices, defval, attached, desc) ==
  [ name_ |-> name, type_ |-> "CHOICE", cls |-> "Choice", flags_ |-> flags,
    attached_ |-> attached, set_ |-> FALSE, desc_ |-> desc,
    value_ |-> defval, defval_ |-> defval, choices_ |-> choices ]

getRequired(arg) == "REQUIRED" \in arg.flags_

getSkip(arg) == "SKIP" \in arg.flags_

-----------------------------------------------------------------------------
(* CArgs::setFormat: the option-definition compiler *)

RECURSIVE SkipSpaces(_, _)
SkipSpaces(def, n) ==
  IF n < Len(def) /\ isspace(At(def, n)) THEN SkipSpaces(def, n + 1) ELSE n

RECURSIVE SkipDashes(_, _)
SkipDashes(def, n) ==
  IF n < Len(def) /\ At(def, n) = "-" THEN SkipDashes(def, n + 1) ELSE n

RECURSIVE SkipNameChars(_, _)
SkipNameChars(def, n) ==
  IF n < Len(def) /\ (isalnum(At(def, n)) \/ At(def, n) = "_")
    THEN SkipNameChars(def, n + 1) ELSE n

RECURSIVE SkipToBracket(_, _)
SkipToBracket(def, n) ==
  IF n < Len(def) /\ At(def, n) # "]" THEN SkipToBracket(def, n + 1) ELSE n

RECURSIVE SkipDigits(_, _)
SkipDigits(def, n) ==
  IF n < Len(def) /\ isdigit(At(def, n)) THEN SkipDigits(def, n + 1) ELSE n

FlagOf(c) ==
  CASE c = "n" -> "NO_CASE"
    [] c = "r" -> "REQUIRED"
    [] c = "s" -> "SKIP"
    [] c = "m" -> "MULTIPLE"

\* the flag loop reads def[i] without a size check; def[size] is '\0'
RECURSIVE FlagsLoop(_, _, _)
FlagsLoop(def, n, flags) ==
  IF At(def, n) \in {"n", "r", "s", "m"}
    THEN FlagsLoop(def, n + 1, flags \cup {FlagOf(At(def, n))})
    ELSE [ i |-> n, flags |-> flags ]

\* the scan of '=<value>': a backslash skips the character after it
RECURSIVE SkipDefval(_, _)
SkipDefval(def, n) ==
  IF n < Len(def) /\ ~isspace(At(def, n))
    THEN SkipDefval(def, IF At(def, n) = "\\" THEN n + 2 ELSE n + 1)
    ELSE n

\* the scan of '(<description>)'
RECURSIVE SkipDesc(_, _)
SkipDesc(def, n) ==
  IF n < Len(def) /\ At(def, n) # ")"
    THEN SkipDesc(def, IF At(def, n) = "\\" THEN n + 2 ELSE n + 1)
    ELSE n

KindOf(c) ==
  CASE c = "f"          -> "BOOLEAN"
    [] c \in {"i", "I"} -> "INTEGER"
    [] c \in {"r", "R"} -> "REAL"
    [] c \in {"s", "S"} -> "STRING"
    [] c \in {"c", "C"} -> "CHOICE"
    [] OTHER            -> "BOOLEAN"

NoTypeSection(n) ==
  [ err |-> FALSE, type |-> "BOOLEAN", attached |-> FALSE, choices |-> << >>,
    count |-> 1, flags |-> {}, i |-> n, past |-> FALSE ]

\* the bracketed choice list after 'c' / 'C'; n is the index of the kind character
ChoiceSection(def, n) ==
  LET k1 == n + 1
      k2 == k1 + 1
      k3 == SkipToBracket(def, k2)
  IN  IF k1 >= Len(def) \/ At(def, k1) # "["
        THEN [ err |-> TRUE, choices |-> << >>, i |-> k1 ]
        ELSE [ err |-> FALSE,
               choices |-> addFields(Substr(def, k2, k3 - k2), << >>, << >>),
               i |-> k3 ]

\* ':' <type> [<choices>] [<count>] [<flags>]; n is the index after the name
TypeSection(def, n) ==
  IF ~(n < Len(def) /\ At(def, n) = ":") THEN NoTypeSection(n)
  ELSE
    LET k    == n + 1
        c    == At(def, k)
        type == KindOf(c)
        ch   == IF type = "CHOICE" THEN ChoiceSection(def, k)
                ELSE [ err |-> FALSE, choices |-> << >>, i |-> k ]
        m    == ch.i + 1
        m2   == SkipDigits(def, m)
        hasCount == isdigit(At(def, m))
        count    == IF hasCount THEN toInteger(Substr(def, m, m2 - m)) ELSE 1
        fl   == FlagsLoop(def, IF hasCount THEN m2 ELSE m, {})
    IN  [ err      |-> ch.err \/ count <= 0,
          type     |-> type,
          attached |-> c \in {"I", "R", "S", "C"},
          choices  |-> ch.choices,
          count    |-> count,
          flags    |-> fl.flags,
          i        |-> fl.i,
          past     |-> m > Len(def) ]

\* '=' <value>; n is the index after the type section
DefvalSection(def, n) ==
  IF n < Len(def) /\ At(def, n) = "="
    THEN LET e == SkipDefval(def, n + 1)
         IN  [ defval |-> Substr(def, n + 1, e - (n + 1)), i |-> e ]
    ELSE [ defval |-> << >>, i |-> n ]

\* optional white space and '(' <description> ')'
DescSection(def, n) ==
  LET j == SkipSpaces(def, n)
  IN  IF j < Len(def) /\ At(def, j) = "("
        THEN LET e == SkipDesc(def, j + 1)
             IN  [ desc |-> Substr(def, j + 1, e - (j + 1)),
                   i    |-> IF e < Len(def) /\ At(def, e) = ")" THEN e + 1 ELSE e ]
        ELSE [ desc |-> << >>, i |-> n ]

NoArg == [ err |-> TRUE, arg |-> << >> ]

\* the construction of the descriptor from the fields of its record
MakeArg(name, type, count, flags, attached, choices, defval, desc) ==
  CASE type = "BOOLEAN" ->
         IF defval # << >> /\ ~isBool(defval) THEN NoArg
         ELSE IF count # 1 THEN NoArg
         ELSE [ err |-> FALSE,
                arg |-> CArgBoolean(name, flags,
                                    IF defval # << >> THEN toBool(defval) ELSE FALSE, desc) ]
    [] type = "INTEGER" ->
         IF defval # << >> /\ ~isInteger(defval) THEN NoArg
         ELSE IF count # 1 THEN NoArg
         ELSE [ err |-> FALSE,
                arg |-> CArgInteger(name, flags,
                                    IF defval # << >> THEN toInteger(defval) ELSE 0,
                                    attached, desc) ]
    [] type = "REAL" ->
         IF defval # << >> /\ ~isReal(defval) THEN NoArg
         ELSE IF count # 1 THEN NoArg
         ELSE [ err |-> FALSE,
                arg |-> CArgReal(name, flags,
                                 IF defval # << >> THEN toReal(defval) ELSE toReal(<<"0">>),
                                 attached, desc) ]
    [] type = "STRING" ->
         IF "MULTIPLE" \in flags
           THEN [ err |-> FALSE, arg |-> CArgStringList(name, flags, defval, attached, desc) ]
         ELSE IF count # 1 THEN NoArg
         ELSE [ err |-> FALSE, arg |-> CArgString(name, flags, defval, attached, desc) ]
    [] type = "CHOICE" ->
         IF defval # << >> /\ ~isInteger(defval) THEN NoArg
         ELSE IF count # 1 THEN NoArg
         ELSE [ err |-> FALSE,
                arg |-> CArgChoice(name, flags, choices,
                                   IF defval # << >> THEN toInteger(defval) ELSE 0,
                                   attached, desc) ]

\* one record of the definition; n is the index of its first '-'
ParseRecord(def, n) ==
  LET i1 == SkipDashes(def, n + 1)
  IN  IF ~(i1 < Len(def) /\ isalnum(At(def, i1)))
        THEN [ err |-> TRUE, arg |-> << >>, i |-> i1, past |-> FALSE ]
        ELSE
          LET i2   == SkipNameChars(def, i1 + 1)
              name == Substr(def, n, i2 - n)
              ty   == TypeSection(def, i2)
              dv   == DefvalSection(def, ty.i)
              ds   == DescSection(def, dv.i)
              mk   == MakeArg(name, ty.type, ty.count, ty.flags, ty.attached,
                              ty.choices, dv.defval, ds.desc)
          IN  IF ty.err
                THEN [ err |-> TRUE, arg |-> << >>, i |-> ty.i, past |-> ty.past ]
              ELSE IF ds.i < Len(def) /\ ~isspace(At(def, ds.i))
                THEN [ err |-> TRUE, arg |-> << >>, i |-> ds.i, past |-> ty.past ]
              ELSE [ err |-> mk.err, arg |-> mk.arg, i |-> ds.i, past |-> ty.past ]

\* a setFormat loop that leaves a failing record out and compiles the records
\* after it
RECURSIVE SkipRecord(_, _)
SkipRecord(def, n) ==
  IF n < Len(def) /\ ~isspace(At(def, n)) THEN SkipRecord(def, n + 1) ELSE n

RECURSIVE setFormatLoopSkips(_, _, _)
setFormatLoopSkips(def, n, acc) ==
  LET i1 == SkipSpaces(def, n)
  IN  IF i1 >= Len(def) THEN [ args |-> acc, error |-> FALSE ]
      ELSE LET r == IF At(def, i1) = "-" THEN ParseRecord(def, i1) ELSE NoArg
           IN  IF r.err
                 THEN [ args  |-> setFormatLoopSkips(def, SkipRecord(def, i1), acc).args,
                        error |-> TRUE ]
                 ELSE setFormatLoopSkips(def, r.i, Append(acc, r.arg))


\* the loop over the records: stops at the first CTHROW, keeping what was appended
RECURSIVE setFormatLoop(_, _, _)
setFormatLoop(def, n, acc) ==
  LET i1 == SkipSpaces(def, n)
  IN  IF i1 >= Len(def) THEN [ args |-> acc, error |-> FALSE ]
      ELSE IF At(def, i1) # "-" THEN [ args |-> acc, error |-> TRUE ]
      ELSE LET r == ParseRecord(def, i1)
           IN  IF r.err THEN [ args |-> acc, error |-> TRUE ]
               ELSE setFormatLoop(def, r.i, Append(acc, r.arg))

setFormat(def) == setFormatLoop(def, 0, << >>)

-----------------------------------------------------------------------------
(* class CArg: matching and value setting *)

\* an optionCmp that compares only the first name_.size() characters of the
\* token for an unattached descriptor too
optionCmpPrefix(arg, opt) ==
  LET opt1 == Substr(opt, 0, Len(arg.name_))
  IN  /\ arg.attached_ => Len(opt) > Len(arg.name_)
      /\ IF "NO_CASE" \in arg.flags_ THEN casecmpEq(opt1, arg.name_) ELSE opt1 = arg.name_

\* CArg::optionCmp
optionCmp(arg, opt) ==
  IF ~arg.attached_
    THEN IF "NO_CASE" \in arg.flags_ THEN casecmpEq(opt, arg.name_)
         ELSE opt = arg.name_
    ELSE IF Len(opt) <= Len(arg.name_) THEN FALSE
         ELSE LET opt1 == Substr(opt, 0, Len(arg.name_))
              IN  IF "NO_CASE" \in arg.flags_ THEN casecmpEq(opt1, arg.name_)
                  ELSE opt1 = arg.name_

\* getNumArgs1 of each subclass: CArgStringList answers values_.size()
getNumArgs1(arg) ==
  CASE arg.cls = "Boolean"    -> 0
    [] arg.cls = "StringList" -> Len(arg.value_)
    [] OTHER                  -> 1

\* a getNumArgs that counts the attached text as a token already taken
getNumArgsBack(arg) == IF arg.attached_ THEN -1 ELSE getNumArgs1(arg)

\* CArg::getNumArgs
getNumArgs(arg) == IF arg.attached_ THEN 0 ELSE getNumArgs1(arg)

\* a search of the choices that ignores the case of the letters
ChoiceIndexNoCase(choices, choice) ==
  IF \E k \in 1..Len(choices) : Lowered(choices[k]) = Lowered(choice)
    THEN (CHOOSE k \in 1..Len(choices) :
            /\ Lowered(choices[k]) = Lowered(choice)
            /\ \A m \in 1..(k - 1) : Lowered(choices[m]) # Lowered(choice)) - 1
    ELSE -1


\* the 0-based position of the first choice equal to the text, or -1
ChoiceIndex(choices, choice) ==
  IF \E k \in 1..Len(choices) : choices[k] = choice
    THEN (CHOOSE k \in 1..Len(choices) :
            choices[k] = choice /\ \A m \in 1..(k - 1) : choices[m] # choice) - 1
    ELSE -1

\* setValue1 of each subclass, given args[0]: the flag it returns and the new value_
setValue1(arg, a0) ==
  CASE arg.cls = "Boolean" -> [ flag |-> TRUE, value |-> TRUE ]
    [] arg.cls = "Integer" ->
         IF ~isInteger(a0) THEN [ flag |-> FALSE, value |-> arg.value_ ]
         ELSE [ flag |-> TRUE, value |-> toInteger(a0) ]
    [] arg.cls = "Real" ->
         IF ~isReal(a0) THEN [ flag |-> FALSE, value |-> arg.value_ ]
         ELSE [ flag |-> TRUE, value |-> toReal(a0) ]
    [] arg.cls = "String" -> [ flag |-> TRUE, value |-> a0 ]
    [] arg.cls = "StringList" -> [ flag |-> TRUE, value |-> Append(arg.value_, a0) ]
    [] arg.cls = "Choice" ->
         IF ChoiceIndex(arg.choices_, a0) < 0 THEN [ flag |-> FALSE, value |-> arg.value_ ]
         ELSE [ flag |-> TRUE, value |-> ChoiceIndex(arg.choices_, a0) ]

\* whether setValue1 of the descriptor's class reads args[0]
ReadsArg0(arg) == arg.cls # "Boolean"

\* the args array CArg::setValue hands to setValue1: for an attached
\* descriptor the rest of the option token comes first
SetterArgs(arg, opt, args) ==
  IF ~arg.attached_ THEN args
  ELSE << Substr(opt, Len(arg.name_), Len(opt) - Len(arg.name_)) >> \o args

\* CArg::setValue reads past its args array: nothing was handed to a setter that reads args[0]
SetterReadsPastEnd(arg, opt, args) ==
  ReadsArg0(arg) /\ SetterArgs(arg, opt, args) = << >>

\* a setValue that marks the descriptor set whatever setValue1 returns
setValueAlwaysSet(arg, opt, args, g) ==
  LET args1 == SetterArgs(arg, opt, args)
      r     == setValue1(arg, IF args1 = << >> THEN g ELSE args1[1])
  IN  [ arg EXCEPT !.set_ = TRUE, !.value_ = r.value ]

\* CArg::setValue: set_ takes whatever setValue1 returns; g is what a read past
\* the end of args yields
setValue(arg, opt, args, g) ==
  LET args1 == SetterArgs(arg, opt, args)
      r     == setValue1(arg, IF args1 = << >> THEN g ELSE args1[1])
  IN  [ arg EXCEPT !.set_ = r.flag, !.value_ = r.value ]

-----------------------------------------------------------------------------
(* Bounds and inputs *)

\* the longest argument list handed to a parse call, the program name included
MaxArgc == 4

\* a parse call starts only while every string list holds at most this many values
MaxValues == 1

\* argv[0]
Prog == <<"p">>

\* what a read of a token past the end of the argument list may yield
Garbage == { << >>, <<"?">> }

\* the option definitions the registry is constructed with, each with the
\* tokens its argument lists are drawn from
Scenarios ==
  { [ def  |-> <<"-","a"," ","-","b",":","f","s">>,
      toks |-> { <<"-","a","b">>, <<"-","a","z">>, <<"-","a">>, <<"-","-">>, <<"-","b","b">> } ],
    [ def  |-> <<"-","i",":","i","r","=","5"," ","-","a">>,
      toks |-> { <<"-","i">>, <<"7">>, <<"x">>, <<"-","a">> } ],
    [ def  |-> <<"-","I",":","I"," ","-","i",":","i","r">>,
      toks |-> { <<"-","I","4","2">>, <<"-","i">>, <<"4","2">>, <<"-","i","4","2">>, <<"-","I","x">> } ],
    [ def  |-> <<"-","f",":","f","=","1"," ","-","r",":","r","=","4",".","5"," ","-","c",":","c","[","a",",","b","]","=","1">>,
      toks |-> { <<"-","r">>, <<"2">>, <<"b">>, <<"-","c">> } ],
    [ def  |-> <<"-","s",":","s","=","F","r"," ","-","m",":","s","m","=","B","i">>,
      toks |-> { <<"-","s">>, <<"-","m">>, <<"v">> } ],
    [ def  |-> <<"-","o",":","s","s"," ","-","p",":","s","n"," ","(","p","a","t","h",")">>,
      toks |-> { <<"-","o">>, <<"-","P">>, <<"v">>, <<"-","-","h","e","l","p">> } ],
    [ def  |-> <<"-","c",":","c","[","b",",","a",",","b","]","=","1"," ","-","C",":","C","[","b",",","a","]"," ","-","C","a"," ","-","c",":","s","=","F","r">>,
      toks |-> { <<"-","c">>, <<"b">>, <<"B">>, <<"-","C","a">> } ] }

Formats == { s.def : s \in Scenarios }

TokensOf(def) == (CHOOSE s \in Scenarios : s.def = def).toks

RECURSIVE SeqsUpTo(_, _)
SeqsUpTo(S, n) ==
  IF n = 0 THEN { << >> }
  ELSE LET shorter == SeqsUpTo(S, n - 1)
       IN  shorter \cup { Append(q, t) : q \in shorter, t \in S }

\* the argument lists of a parse call: empty, or the program name and up to
\* MaxArgc - 1 tokens
ArgLists(def) == { << >> } \cup { <<Prog>> \o q : q \in SeqsUpTo(TokensOf(def), MaxArgc - 1) }

-----------------------------------------------------------------------------
(* CArgs::parse1: the scan, one loop iteration per step *)

argc == Len(argv)

\* argv[i]
Tok == argv[i + 1]

Scanning == pc = "scan" /\ i < argc

DashDashTok == <<"-","-">>

HelpTok == <<"-","-","h","e","l","p">>

\* the first test of the loop: the token is copied and not looked at; only the
\* argument-array scanner tests skip_remaining_
PassesThrough(e, tok, skip) ==
  IF e = "array" THEN At(tok, 0) # "-" \/ skip
  ELSE Len(tok) = 0 \/ At(tok, 0) # "-"

\* only the argument-array scanner compares the token with "--"
IsDashDash(e, tok) == e = "array" /\ tok = DashDashTok

\* a lookup that returns the last descriptor the token matches
FirstMatchLast(args, tok) ==
  IF \E k \in 1..Len(args) : optionCmp(args[k], tok)
    THEN CHOOSE k \in 1..Len(args) :
           optionCmp(args[k], tok) /\ \A m \in (k + 1)..Len(args) : ~optionCmp(args[m], tok)
    ELSE 0


\* the position in args_ of the first descriptor whose optionCmp accepts the
\* token, 0 when parg reaches args_.end()
FirstMatch(args, tok) ==
  IF \E k \in 1..Len(args) : optionCmp(args[k], tok)
    THEN CHOOSE k \in 1..Len(args) :
           optionCmp(args[k], tok) /\ \A m \in 1..(k - 1) : ~optionCmp(args[m], tok)
    ELSE 0

\* a Boolean descriptor with a two-character name
IsFlag(arg) == arg.type_ = "BOOLEAN" /\ Len(arg.name_) = 2

single_letter_flag(args) == \E k \in 1..Len(args) : IsFlag(args[k])

\* a first loop that forgets to clear 'found' for each character
ClusterFoundAny(args, tok) ==
  /\ Len(tok) > 1
  /\ \E j \in 2..Len(tok) : \E k \in 1..Len(args) : IsFlag(args[k]) /\ args[k].name_[2] = tok[j]

\* 'found' after the first loop over the token's characters: false for a token
\* with no character after the dash
ClusterFound(args, tok) ==
  /\ Len(tok) > 1
  /\ \A j \in 2..Len(tok) : \E k \in 1..Len(args) : IsFlag(args[k]) /\ args[k].name_[2] = tok[j]

\* the descriptors the second loop calls setValue("", nullptr, 0) on
ClusterHits(args, tok) ==
  { k \in 1..Len(args) : IsFlag(args[k]) /\ \E j \in 2..Len(tok) : args[k].name_[2] = tok[j] }

ClusterSet(args, tok) ==
  [ k \in 1..Len(args) |->
      IF k \in ClusterHits(args, tok) THEN setValue(args[k], << >>, << >>, << >>) ELSE args[k] ]

\* the fresh "-x" tokens the second loop pushes: one per character and per
\* two-character Boolean descriptor with the Skip flag that has that letter
RECURSIVE ClusterPush(_, _, _, _)
ClusterPush(args, tok, j, k) ==
  IF j > Len(tok) THEN << >>
  ELSE IF k > Len(args) THEN ClusterPush(args, tok, j + 1, 1)
  ELSE (IF IsFlag(args[k]) /\ args[k].name_[2] = tok[j] /\ getSkip(args[k])
          THEN << <<"-", tok[j]>> >> ELSE << >>)
       \o ClusterPush(args, tok, j, k + 1)

\* the tokens handed to setValue after ++i: the argument array hands &argv[i],
\* the vector scanner fills args1 with copies of args[i]
ValueArgs(e, list, n) ==
  IF e = "array" THEN SubSeq(list, n + 1, Len(list))
  ELSE [ j \in 1..(Len(list) - n) |-> list[n + 1] ]

\* the option token and its num_args value tokens, pushed for a Skip descriptor
SkipPush(list, n, num_args) == SubSeq(list, n, n + num_args)

Init ==
  /\ def_ \in Formats
  /\ args_ = setFormat(def_).args
  /\ formatError = setFormat(def_).error
  /\ skip_remaining_ = FALSE
  /\ help_ = FALSE
  /\ pc = "idle"
  /\ entry = "array"
  /\ update = FALSE
  /\ argv = << >>
  /\ i = 0
  /\ new_argv = << >>
  /\ ret = FALSE
  /\ diag = {}
  /\ oob = FALSE
  /\ orig = << >>
  /\ matched = {}
  /\ everMatched = {}
  /\ startSet = {}
  /\ dashdash = FALSE

\* parse(argc, argv), parse(&argc, argv), parse(const vector&), parse(vector&):
\* the call and the code before the loop
ParseBegin ==
  /\ pc = "idle"
  /\ \A k \in 1..Len(args_) : args_[k].cls = "StringList" => Len(args_[k].value_) <= MaxValues
  /\ \E e \in {"array", "vector"}, u \in BOOLEAN, list \in ArgLists(def_) :
       /\ entry' = e
       /\ update' = u
       /\ argv' = list
       /\ orig' = list
       /\ skip_remaining_' = IF e = "array" THEN FALSE ELSE skip_remaining_
       /\ new_argv' = IF Len(list) > 0 /\ u THEN << list[1] >> ELSE << >>
       /\ i' = IF Len(list) > 0 THEN 1 ELSE 0
  /\ pc' = "scan"
  /\ diag' = {}
  /\ oob' = FALSE
  /\ matched' = {}
  /\ startSet' = { k \in 1..Len(args_) : args_[k].set_ }
  /\ dashdash' = FALSE
  /\ UNCHANGED << def_, args_, formatError, help_, ret, everMatched >>

\* a token that does not start with '-', or any token once skip_remaining_ is set
PassThrough ==
  /\ Scanning
  /\ PassesThrough(entry, Tok, skip_remaining_)
  /\ new_argv' = IF update THEN Append(new_argv, Tok) ELSE new_argv
  /\ i' = i + 1
  /\ dashdash' = (dashdash \/ Tok = DashDashTok)
  /\ UNCHANGED << def_, args_, formatError, skip_remaining_, help_, pc, entry, update,
                  argv, ret, diag, oob, orig, matched, everMatched, startSet >>

\* the literal "--" (argument array only)
DashDash ==
  /\ Scanning
  /\ ~PassesThrough(entry, Tok, skip_remaining_)
  /\ IsDashDash(entry, Tok)
  /\ i' = i + 1
  /\ skip_remaining_' = TRUE
  /\ dashdash' = TRUE
  /\ UNCHANGED << def_, args_, formatError, help_, pc, entry, update, argv, new_argv,
                  ret, diag, oob, orig, matched, everMatched, startSet >>

\* a "--help" that ends the scan after printing the usage
HelpAborts ==
  /\ Scanning
  /\ ~PassesThrough(entry, Tok, skip_remaining_)
  /\ ~IsDashDash(entry, Tok)
  /\ Tok = HelpTok
  /\ diag' = diag \cup {"usage"}
  /\ pc' = "break"
  /\ help_' = TRUE
  /\ UNCHANGED << def_, args_, formatError, skip_remaining_, i, entry, update, argv,
                  new_argv, ret, oob, orig, matched, everMatched, dashdash, startSet >>


\* the literal "--help"
Help ==
  /\ Scanning
  /\ ~PassesThrough(entry, Tok, skip_remaining_)
  /\ ~IsDashDash(entry, Tok)
  /\ Tok = HelpTok
  /\ diag' = diag \cup {"usage"}
  /\ i' = i + 1
  /\ help_' = TRUE
  /\ UNCHANGED << def_, args_, formatError, skip_remaining_, pc, entry, update, argv,
                  new_argv, ret, oob, orig, matched, everMatched, dashdash, startSet >>

\* the token reaches the search of args_
Candidate ==
  /\ Scanning
  /\ ~PassesThrough(entry, Tok, skip_remaining_)
  /\ ~IsDashDash(entry, Tok)
  /\ Tok # HelpTok

\* no descriptor accepts the token, and it is not a cluster of flags either
Unrecognised ==
  /\ Candidate
  /\ FirstMatch(args_, Tok) = 0
  /\ ~single_letter_flag(args_) \/ ~ClusterFound(args_, Tok)
  /\ diag' = IF ~single_letter_flag(args_) \/ Len(Tok) > 1
               THEN diag \cup {"unrecognised"} ELSE diag
  /\ new_argv' = IF update THEN Append(new_argv, Tok) ELSE new_argv
  /\ i' = i + 1
  /\ dashdash' = (dashdash \/ Tok = DashDashTok)
  /\ UNCHANGED << def_, args_, formatError, skip_remaining_, help_, pc, entry, update,
                  argv, ret, oob, orig, matched, everMatched, startSet >>

\* no descriptor accepts the token, and every character after the dash is the
\* letter of a two-character Boolean descriptor
Cluster ==
  /\ Candidate
  /\ FirstMatch(args_, Tok) = 0
  /\ single_letter_flag(args_)
  /\ ClusterFound(args_, Tok)
  /\ args_' = ClusterSet(args_, Tok)
  /\ new_argv' = IF update THEN new_argv \o ClusterPush(args_, Tok, 2, 1) ELSE new_argv
  /\ i' = i + 1
  /\ matched' = matched \cup ClusterHits(args_, Tok)
  /\ everMatched' = everMatched \cup ClusterHits(args_, Tok)
  /\ UNCHANGED << def_, formatError, skip_remaining_, help_, pc, entry, update, argv,
                  ret, diag, oob, orig, dashdash, startSet >>

\* a descriptor accepts the token and fewer than num_args tokens follow: break
MissingValue ==
  /\ Candidate
  /\ FirstMatch(args_, Tok) # 0
  /\ i + getNumArgs(args_[FirstMatch(args_, Tok)]) >= argc
  /\ diag' = diag \cup {"missing"}
  /\ pc' = "break"
  /\ matched' = matched \cup {FirstMatch(args_, Tok)}
  /\ everMatched' = everMatched \cup {FirstMatch(args_, Tok)}
  /\ UNCHANGED << def_, args_, formatError, skip_remaining_, help_, entry, update, argv,
                  i, new_argv, ret, oob, orig, dashdash, startSet >>

\* a descriptor accepts the token and the value check passed
Matched ==
  /\ Candidate
  /\ FirstMatch(args_, Tok) # 0
  /\ i + getNumArgs(args_[FirstMatch(args_, Tok)]) < argc

\* the setter, or the "Invalid Value" message, reads the token at argv[argc]
ReadsPastEnd(arg, opt, args, n) ==
  \/ SetterReadsPastEnd(arg, opt, args)
  \/ /\ ~setValue(arg, opt, args, << >>).set_
     /\ n >= argc

\* ++i, setValue, the message when it fails, the pushes for Skip, i += num_args
Assign ==
  /\ Matched
  /\ LET k        == FirstMatch(args_, Tok)
         num_args == getNumArgs(args_[k])
         args     == ValueArgs(entry, argv, i + 1)
     IN  /\ \E g \in IF SetterReadsPastEnd(args_[k], Tok, args) THEN Garbage ELSE { << >> } :
                args_' = [ args_ EXCEPT ![k] = setValue(args_[k], Tok, args, g) ]
         /\ diag' = IF args_'[k].set_ THEN diag ELSE diag \cup {"invalid"}
         /\ oob' = (oob \/ ReadsPastEnd(args_[k], Tok, args, i + 1))
         /\ new_argv' = IF update /\ getSkip(args_[k])
                          THEN new_argv \o SkipPush(argv, i + 1, num_args) ELSE new_argv
         /\ i' = i + 1 + num_args
         /\ matched' = matched \cup {k}
         /\ everMatched' = everMatched \cup {k}
  /\ UNCHANGED << def_, formatError, skip_remaining_, help_, pc, entry, update, argv,
                  ret, orig, dashdash, startSet >>

\* the read at argv[argc] ends the process: in the setter before it assigns, or
\* in the message after a failed setter cleared set_
AssignCrash ==
  /\ Matched
  /\ LET k    == FirstMatch(args_, Tok)
         args == ValueArgs(entry, argv, i + 1)
     IN  /\ ReadsPastEnd(args_[k], Tok, args, i + 1)
         /\ args_' = IF SetterReadsPastEnd(args_[k], Tok, args) THEN args_
                     ELSE [ args_ EXCEPT ![k] = setValue(args_[k], Tok, args, << >>) ]
         /\ matched' = matched \cup {k}
         /\ everMatched' = everMatched \cup {k}
  /\ i' = i + 1
  /\ oob' = TRUE
  /\ pc' = "crashed"
  /\ UNCHANGED << def_, formatError, skip_remaining_, help_, entry, update, argv,
                  new_argv, ret, diag, orig, dashdash, startSet >>

\* a checkRequired that also wants no error message to have been written
checkRequiredNoErrors(args) ==
  /\ \A k \in 1..Len(args) : getRequired(args[k]) => args[k].set_
  /\ diag \cap {"missing", "invalid"} = {}

\* a checkRequired whose all_found keeps only the last descriptor's answer
checkRequiredLast(args) ==
  Len(args) = 0 \/ (getRequired(args[Len(args)]) => args[Len(args)].set_)

\* CArgs::checkRequired
checkRequired(args) == \A k \in 1..Len(args) : getRequired(args[k]) => args[k].set_

\* after the loop: the write-back of new_argv, then checkRequired
ParseEnd ==
  /\ pc = "break" \/ (pc = "scan" /\ i >= argc)
  /\ argv' = IF update THEN new_argv ELSE argv
  /\ diag' = IF checkRequired(args_) THEN diag ELSE diag \cup {"required"}
  /\ ret' = checkRequired(args_)
  /\ pc' = "done"
  /\ UNCHANGED << def_, args_, formatError, skip_remaining_, help_, entry, update, i,
                  new_argv, oob, orig, matched, everMatched, dashdash, startSet >>

\* the caller is done with the call: its argument list, the value returned and
\* the locals of parse1 go out of scope; the registry stays as the call left it
Discard ==
  /\ pc = "done"
  /\ pc' = "idle"
  /\ entry' = "array"
  /\ update' = FALSE
  /\ argv' = << >>
  /\ i' = 0
  /\ new_argv' = << >>
  /\ ret' = FALSE
  /\ diag' = {}
  /\ oob' = FALSE
  /\ orig' = << >>
  /\ matched' = {}
  /\ startSet' = {}
  /\ dashdash' = FALSE
  /\ UNCHANGED << def_, args_, formatError, skip_remaining_, help_, everMatched >>

\* a resetSet that also puts every value back to its default
resetSetValues(args) ==
  [ k \in 1..Len(args) |-> [ args[k] EXCEPT !.set_ = FALSE, !.value_ = args[k].defval_ ] ]

\* CArgs::resetSet
resetSet(args) == [ k \in 1..Len(args) |-> [ args[k] EXCEPT !.set_ = FALSE ] ]

ResetSet ==
  /\ pc = "idle"
  /\ args_' = resetSet(args_)
  /\ UNCHANGED << def_, formatError, skip_remaining_, help_, pc, entry, update, argv, i,
                  new_argv, ret, diag, oob, orig, matched, everMatched, dashdash, startSet >>

Next ==
  \/ ParseBegin
  \/ PassThrough
  \/ DashDash
  \/ Help
  \/ Unrecognised
  \/ Cluster
  \/ MissingValue
  \/ Assign
  \/ AssignCrash
  \/ ParseEnd
  \/ Discard
  \/ ResetSet

Spec == Init /\ [][Next]_vars

-----------------------------------------------------------------------------
(* A parse call that is never abandoned half way *)

\* the running call takes a step of its loop: pc or i changes
Iterates ==
  /\ Scanning
  /\ pc' \in {"scan", "break", "crashed"}
  /\ i' \in 0..argc

\* the running call leaves the code after its loop
Returns ==
  /\ pc = "break" \/ (pc = "scan" /\ i >= argc)
  /\ pc' = "done"

\* parse1 is sequential code: once called it keeps running until it returns
LiveSpec == Init /\ [][Next]_vars /\ WF_<<pc, i>>(Iterates) /\ WF_pc(Returns)

-----------------------------------------------------------------------------
(* CArgs::parse1 as a function: the loop run to its end *)

\* the loop of parse1 from the top of an iteration with index n: what it leaves
\* in args_, new_argv, skip_remaining_ and help_; ub when it reads list[Len(list)]
RECURSIVE ScanLoop(_, _, _, _, _, _, _, _)
ScanLoop(args, e, u, list, n, out, skip, help) ==
  IF n >= Len(list)
    THEN [ args |-> args, out |-> out, skip |-> skip, help |-> help, ub |-> FALSE ]
  ELSE
    LET tok == list[n + 1]
        k   == FirstMatch(args, tok)
    IN  IF PassesThrough(e, tok, skip)
          THEN ScanLoop(args, e, u, list, n + 1, IF u THEN Append(out, tok) ELSE out, skip, help)
        ELSE IF IsDashDash(e, tok)
          THEN ScanLoop(args, e, u, list, n + 1, out, TRUE, help)
        ELSE IF tok = HelpTok
          THEN ScanLoop(args, e, u, list, n + 1, out, skip, TRUE)
        ELSE IF k = 0
          THEN IF single_letter_flag(args) /\ ClusterFound(args, tok)
                 THEN ScanLoop(ClusterSet(args, tok), e, u, list, n + 1,
                               IF u THEN out \o ClusterPush(args, tok, 2, 1) ELSE out,
                               skip, help)
                 ELSE ScanLoop(args, e, u, list, n + 1,
                               IF u THEN Append(out, tok) ELSE out, skip, help)
        ELSE
          LET num_args == getNumArgs(args[k])
              values   == ValueArgs(e, list, n + 1)
              arg1     == setValue(args[k], tok, values, << >>)
          IN  IF n + num_args >= Len(list)
                THEN [ args |-> args, out |-> out, skip |-> skip, help |-> help, ub |-> FALSE ]
              ELSE IF SetterReadsPastEnd(args[k], tok, values)
                        \/ (~arg1.set_ /\ n + 1 >= Len(list))
                THEN [ args |-> args, out |-> out, skip |-> skip, help |-> help, ub |-> TRUE ]
              ELSE ScanLoop([ args EXCEPT ![k] = arg1 ], e, u, list, n + 1 + num_args,
                            IF u /\ getSkip(args[k])
                              THEN out \o SkipPush(list, n + 1, num_args) ELSE out,
                            skip, help)

\* one parse call on a registry: the value returned, the registry, the caller's
\* argument list and help_ afterwards
parse1(args, e, u, list, help) ==
  LET r == ScanLoop(args, e, u, list,
                    IF Len(list) > 0 THEN 1 ELSE 0,
                    IF Len(list) > 0 /\ u THEN << list[1] >> ELSE << >>,
                    FALSE, help)
  IN  [ ret  |-> checkRequired(r.args),
        args |-> r.args,
        argv |-> IF u THEN r.out ELSE list,
        help |-> r.help,
        ub   |-> r.ub ]

\* what the loop leaves from a state of the scan: position p of the call, index n
OutcomeOf(p, args, e, u, list, n, out, skip, help) ==
  IF p = "scan"
    THEN ScanLoop(args, e, u, list, n, out, skip, help)
    ELSE [ args |-> args, out |-> out, skip |-> skip, help |-> help, ub |-> FALSE ]

Outcome ==
  OutcomeOf(pc, args_, entry, update, argv, i, new_argv, skip_remaining_, help_)

\* the steps of the scan and ScanLoop agree: a step that reads no token past the
\* end leaves the outcome of the loop as it was, the call returns that outcome,
\* and parse1 is the outcome of the loop from the first step of the call
ScanLoopAgrees ==
  [][ LET next == OutcomeOf(pc', args_', entry', update', argv', i', new_argv',
                            skip_remaining_', help_')
      IN  /\ (pc = "scan" /\ pc' \in {"scan", "break"} /\ oob' = oob) => next = Outcome
          /\ (pc \in {"scan", "break"} /\ pc' = "done") =>
               /\ ret' = checkRequired(Outcome.args)
               /\ args_' = Outcome.args
               /\ argv' = (IF update THEN Outcome.out ELSE argv)
               /\ help_' = Outcome.help
          /\ (pc = "idle" /\ pc' = "scan") =>
               parse1(args_, entry', update', argv', help_)
                 = [ ret  |-> checkRequired(next.args), args |-> next.args,
                     argv |-> IF update' THEN next.out ELSE argv',
                     help |-> next.help, ub |-> next.ub ] ]_vars

-----------------------------------------------------------------------------
(* CArgs::setFormat on its own: the compilation of an option definition *)

\* the most records in an option definition handed to the constructor
MaxRecords == 3

\* the records the option definitions are made of
Records ==
  {
    <<"-","a">>,                               \* a flag, no type section
    <<"-","i",":","i">>,                       \* Integer
    <<"-","r",":","R">>,                       \* Real, attached
    <<"-","s",":","s">>,                       \* String
    <<"-","c",":","c","[","a",",","b","]">>,   \* Choice
    <<"-","d",":","i","=","3">>,               \* Integer with a default
    <<"-","m",":","s","2","m">>,               \* String Multiple with a count
    <<"-","q",":","x">>,                       \* a character after ':' that is no kind character
    <<"-","z",":","i","0">>,                   \* count 0
    <<"-","t",":","i","2">>,                   \* count other than 1
    <<"-","e",":","i","=","x">>,               \* invalid default for the kind
    <<"+","b">>                                \* bad character
  }

RECURSIVE Join(_)
Join(recs) ==
  IF Len(recs) = 0 THEN << >>
  ELSE IF Len(recs) = 1 THEN recs[1]
  ELSE recs[1] \o <<" ">> \o Join(Tail(recs))

\* the lists of records of the option definitions
RecordLists == SeqsUpTo(Records, MaxRecords) \ { << >> }

Definitions == { Join(recs) : recs \in RecordLists }

\* before CArgs::CArgs has run
FormatInit ==
  /\ def_ = << >>
  /\ args_ = << >>
  /\ formatError = FALSE
  /\ skip_remaining_ = FALSE
  /\ help_ = FALSE
  /\ pc = "new"
  /\ entry = "array"
  /\ update = FALSE
  /\ argv = << >>
  /\ i = 0
  /\ new_argv = << >>
  /\ ret = FALSE
  /\ diag = {}
  /\ oob = FALSE
  /\ orig = << >>
  /\ matched = {}
  /\ everMatched = {}
  /\ startSet = {}
  /\ dashdash = FALSE

\* CArgs::CArgs(def): the members take their initial values and setFormat(def) runs
Construct ==
  /\ pc = "new"
  /\ \E def \in Definitions :
       /\ def_' = def
       /\ args_' = setFormat(def).args
       /\ formatError' = setFormat(def).error
  /\ skip_remaining_' = FALSE
  /\ help_' = FALSE
  /\ pc' = "idle"
  /\ UNCHANGED << entry, update, argv, i, new_argv, ret, diag, oob, orig, matched,
                  everMatched, startSet, dashdash >>

FormatSpec == FormatInit /\ [][Construct]_vars

-----------------------------------------------------------------------------
(* Properties *)

Required(k) == "REQUIRED" \in args_[k].flags_

\* C1: a parse call returns false exactly when, after its scan, some Required
\* descriptor has set_ = false, whatever messages the scan wrote; and the return
\* leaves every descriptor as the scan left it.
C1_ReturnsFalseIffRequiredUnset ==
  [][ (pc # "done" /\ pc' = "done") =>
        /\ ret' \in BOOLEAN
        /\ (ret' = FALSE) <=> (\E k \in 1..Len(args_) : Required(k) /\ ~args_[k].set_)
        /\ args_' = args_ ]_vars

\* a call that wrote an error message, assigned a value and returned false
C1_Witness ==
  /\ pc = "done"
  /\ ret = FALSE
  /\ diag \cap {"unrecognised", "missing", "invalid"} # {}
  /\ \E k \in matched : args_[k].set_ /\ args_[k].value_ # args_[k].defval_

\* a call that wrote an error message and returned true
C1_ReturnsTrueDespiteErrors ==
  /\ pc = "done"
  /\ ret = TRUE
  /\ {"missing", "invalid"} \cap diag # {}

\* C2 as stated: every parse call whose argument list matches no token to a
\* Required descriptor returns false, whatever earlier calls matched.
C2_UnmatchedRequiredFails ==
  pc = "done" => \A k \in 1..Len(args_) : (Required(k) /\ k \notin matched) => ret = FALSE

\* C2 amended: a parse call whose argument list matches no token to a Required
\* descriptor returns false when that descriptor's set_ was false as the call began.
C2_UnmatchedUnsetRequiredFails ==
  pc = "done" =>
    \A k \in 1..Len(args_) :
      (Required(k) /\ k \notin matched /\ k \notin startSet) => ret = FALSE

\* a call that returned false for a Required descriptor an earlier call had matched
C2_Witness ==
  /\ pc = "done"
  /\ ret = FALSE
  /\ \E k \in everMatched : Required(k) /\ k \notin matched /\ k \notin startSet

\* the value the getter of a descriptor returns when its default is in force
DefaultValue(arg) ==
  IF arg.cls = "StringList"
    THEN IF arg.defval_ = << >> THEN << >> ELSE << arg.defval_ >>
    ELSE arg.defval_

\* C3 as stated: after a parse, a descriptor of any kind that no parse call
\* matched has its default as getter value and is not set.
C3_UnmatchedKeepsDefault ==
  pc = "done" =>
    \A k \in 1..Len(args_) :
      k \notin everMatched =>
        args_[k].value_ = DefaultValue(args_[k]) /\ ~args_[k].set_

\* C3 for the kinds other than the string list
C3_UnmatchedScalarKeepsDefault ==
  pc = "done" =>
    \A k \in 1..Len(args_) :
      (k \notin everMatched /\ args_[k].cls # "StringList") =>
        args_[k].value_ = args_[k].defval_ /\ ~args_[k].set_

\* the text of a token compared with a name under the descriptor's case rule
SameText(arg, a, b) == IF "NO_CASE" \in arg.flags_ THEN Lowered(a) = Lowered(b) ELSE a = b

\* the token is the descriptor's name (unattached), or is strictly longer than
\* the name and begins with it (attached)
Fits(arg, tok) ==
  IF arg.attached_
    THEN Len(tok) > Len(arg.name_) /\ SameText(arg, SubSeq(tok, 1, Len(arg.name_)), arg.name_)
    ELSE SameText(arg, tok, arg.name_)

\* what a descriptor's value becomes when the text is assigned to it
Assigned(arg, text) ==
  CASE arg.cls = "Integer"    -> toInteger(text)
    [] arg.cls = "Real"       -> toReal(text)
    [] arg.cls = "String"     -> text
    [] arg.cls = "StringList" -> Append(arg.value_, text)
    [] arg.cls = "Choice"     -> ChoiceIndex(arg.choices_, text)
    [] OTHER                  -> TRUE

\* the text coerces to the descriptor's kind
Coerces(arg, text) ==
  CASE arg.cls = "Integer" -> isInteger(text)
    [] arg.cls = "Real"    -> isReal(text)
    [] arg.cls = "Choice"  -> \E n \in 1..Len(arg.choices_) : arg.choices_[n] = text
    [] OTHER               -> TRUE

\* the rest of the token after the descriptor's name
Rest(arg, tok) == SubSeq(tok, Len(arg.name_) + 1, Len(tok))

\* C4: in a scan step a descriptor that takes a value changes only when the
\* token fits it (equal to the name when unattached, strictly longer and
\* beginning with the name when attached), and a value it is given is that of
\* the next token (unattached, when there is one) or of the rest of the token
\* (attached); a token that fits no earlier descriptor and fits an Integer, Real,
\* String or Choice descriptor whose value text coerces sets it from that text.
C4_FullTokenMatching ==
  [][ pc = "scan" =>
        \A k \in 1..Len(args_) :
          args_[k].cls # "Boolean" =>
            LET arg  == args_[k]
                text == IF arg.attached_ THEN Rest(arg, Tok) ELSE argv[i + 2]
                has  == arg.attached_ \/ i + 2 <= argc
            IN  /\ args_'[k] # arg =>
                     /\ Fits(arg, Tok)
                     /\ (has /\ args_'[k].set_) => args_'[k].value_ = Assigned(arg, text)
                /\ ( /\ i < argc
                     /\ ~PassesThrough(entry, Tok, skip_remaining_)
                     /\ Fits(arg, Tok)
                     /\ \A m \in 1..(k - 1) : ~Fits(args_[m], Tok)
                     /\ arg.cls # "StringList"
                     /\ has
                     /\ Coerces(arg, text) )
                   => (args_'[k].set_ /\ args_'[k].value_ = Assigned(arg, text)) ]_vars

\* "-I42 -i 42 -i42" was parsed: attached -I and unattached -i both hold 42
C4_Witness ==
  /\ pc = "done"
  /\ Len(orig) = 4
  /\ orig[2] = <<"-","I","4","2">> /\ orig[3] = <<"-","i">> /\ orig[4] = <<"4","2">>
  /\ \E k \in 1..Len(args_) :
       args_[k].name_ = <<"-","I">> /\ args_[k].attached_ /\ args_[k].set_ /\ args_[k].value_ = 42
  /\ \E k \in 1..Len(args_) :
       args_[k].name_ = <<"-","i">> /\ ~args_[k].attached_ /\ args_[k].set_ /\ args_[k].value_ = 42

\* "-i42" alone was parsed: unattached -i is not set and keeps its default
C4_UnattachedNotPrefix ==
  (pc = "done" /\ Len(orig) = 2 /\ orig[2] = <<"-","i","4","2">>) =>
    \A k \in 1..Len(args_) :
      (args_[k].name_ = <<"-","i">> /\ ~args_[k].attached_ /\ k \notin startSet)
        => (~args_[k].set_ /\ k \notin matched)

\* the letters of the two-character Boolean descriptors
FlagLetters == { args_[k].name_[2] : k \in { n \in 1..Len(args_) : IsFlag(args_[n]) } }

\* the characters of a token after its first
Letters(tok) == { tok[j] : j \in 2..Len(tok) }

\* the token is looked up in args_: it starts with '-', the scan is not past a
\* "--", and it is neither "--" (argument array) nor "--help"
LookedUp ==
  /\ pc = "scan"
  /\ i < argc
  /\ ~PassesThrough(entry, Tok, skip_remaining_)
  /\ ~(entry = "array" /\ Tok = DashDashTok)
  /\ Tok # HelpTok

\* C5: for a token that is looked up and fits no descriptor as a whole: when
\* every character after the dash is the letter of a two-character Boolean
\* descriptor, each such descriptor with one of those letters becomes true and
\* set; when some character is not, no descriptor changes and the token is
\* passed through unchanged.
C5_ClusterAllOrNothing ==
  [][ (LookedUp /\ \A k \in 1..Len(args_) : ~Fits(args_[k], Tok)) =>
        IF Letters(Tok) \subseteq FlagLetters
          THEN \A k \in 1..Len(args_) :
                 (IsFlag(args_[k]) /\ args_[k].name_[2] \in Letters(Tok))
                   => (args_'[k].value_ = TRUE /\ args_'[k].set_)
          ELSE /\ args_' = args_
               /\ new_argv' = IF update THEN Append(new_argv, Tok) ELSE new_argv
               /\ i' = i + 1 ]_vars

\* "-az -ab" was parsed compacting: "-az" is kept, -a and -b are set by "-ab"
C5_Witness ==
  /\ pc = "done"
  /\ update
  /\ orig = << Prog, <<"-","a","z">>, <<"-","a","b">> >>
  /\ argv = << Prog, <<"-","a","z">>, <<"-","b">> >>
  /\ \A k \in 1..Len(args_) : IsFlag(args_[k]) => args_[k].set_ /\ args_[k].value_ = TRUE
  /\ startSet = {}

\* the first descriptor the token fits, 0 when it fits none
FirstFit(tok) ==
  IF \E k \in 1..Len(args_) : Fits(args_[k], tok)
    THEN CHOOSE k \in 1..Len(args_) :
           Fits(args_[k], tok) /\ \A m \in 1..(k - 1) : ~Fits(args_[m], tok)
    ELSE 0

\* the value tokens of one occurrence of an option: one for an unattached
\* descriptor that takes a value, none otherwise
ValueTokens(arg) == IF arg.attached_ \/ arg.cls = "Boolean" THEN 0 ELSE 1

\* the fresh "-x" tokens of a flag cluster: one per character and per
\* two-character Boolean descriptor with the Skip flag that has that letter
RECURSIVE KeptFlags(_, _, _)
KeptFlags(tok, j, k) ==
  IF j > Len(tok) THEN << >>
  ELSE IF k > Len(args_) THEN KeptFlags(tok, j + 1, 1)
  ELSE (IF IsFlag(args_[k]) /\ args_[k].name_[2] = tok[j] /\ "SKIP" \in args_[k].flags_
          THEN << <<"-", tok[j]>> >> ELSE << >>)
       \o KeptFlags(tok, j, k + 1)

\* the compacted list C6 describes, from token n (0-based) on: passed-through
\* tokens and the tokens of matched Skip options, in order
RECURSIVE Compacted(_, _, _, _)
Compacted(e, list, n, skip) ==
  IF n >= Len(list) THEN << >>
  ELSE
    LET tok == list[n + 1]
        k   == FirstFit(tok)
    IN  IF PassesThrough(e, tok, skip) THEN << tok >> \o Compacted(e, list, n + 1, skip)
        ELSE IF e = "array" /\ tok = DashDashTok THEN Compacted(e, list, n + 1, TRUE)
        ELSE IF tok = HelpTok THEN Compacted(e, list, n + 1, skip)
        ELSE IF k = 0
          THEN (IF Letters(tok) # {} /\ Letters(tok) \subseteq FlagLetters
                  THEN KeptFlags(tok, 2, 1) ELSE << tok >>)
               \o Compacted(e, list, n + 1, skip)
        ELSE (IF "SKIP" \in args_[k].flags_
                THEN SubSeq(list, n + 1, n + 1 + ValueTokens(args_[k])) ELSE << >>)
             \o Compacted(e, list, n + 1 + ValueTokens(args_[k]), skip)

CompactedList(e, list) ==
  IF list = << >> THEN << >> ELSE << list[1] >> \o Compacted(e, list, 1, FALSE)

\* C6 as stated: a compacting parse that wrote no "missing value" leaves the
\* program name, the passed-through tokens and the option and value tokens of
\* the matched Skip options, in order; those of the other matched options are gone.
C6_CompactedList ==
  (pc = "done" /\ update /\ "missing" \notin diag) => argv = CompactedList(entry, orig)

\* C6 for registries without a string list
C6_CompactedListNoStringList ==
  (pc = "done" /\ update /\ "missing" \notin diag
     /\ \A k \in 1..Len(args_) : args_[k].cls # "StringList")
    => argv = CompactedList(entry, orig)

\* C7 as stated: in a parse through either entry point, the first "--" scanned
\* is dropped and changes nothing, and every token scanned after it is passed
\* through and changes no descriptor.
C7_AfterDashDash ==
  [][ (pc = "scan" /\ i < argc) =>
        /\ dashdash =>
             /\ args_' = args_
             /\ new_argv' = IF update THEN Append(new_argv, Tok) ELSE new_argv
        /\ (~dashdash /\ Tok = DashDashTok) =>
             /\ args_' = args_
             /\ new_argv' = new_argv ]_vars

\* C7 for the argument-array entry point
C7_AfterDashDashArray ==
  [][ (pc = "scan" /\ i < argc /\ entry = "array") =>
        /\ dashdash =>
             /\ args_' = args_
             /\ new_argv' = IF update THEN Append(new_argv, Tok) ELSE new_argv
        /\ (~dashdash /\ Tok = DashDashTok) =>
             /\ args_' = args_
             /\ new_argv' = new_argv ]_vars

\* the last token of the list is looked up and the first descriptor it fits is
\* unattached and takes a value
LastTokenWantsValue ==
  /\ LookedUp
  /\ i + 1 = argc
  /\ FirstFit(Tok) # 0
  /\ ~args_[FirstFit(Tok)].attached_
  /\ args_[FirstFit(Tok)].cls # "Boolean"

\* C8 as stated: when the last token fits an unattached descriptor of a kind
\* that takes a value, the parse reports a missing value and stops: no descriptor
\* changes and nothing is added to the compacted list.
C8_MissingValueStops ==
  [][ LastTokenWantsValue =>
        /\ "missing" \in diag'
        /\ pc' = "break"
        /\ args_' = args_
        /\ new_argv' = new_argv ]_vars

\* C8 for the kinds other than the string list
C8_MissingValueStopsNoStringList ==
  [][ (LastTokenWantsValue /\ args_[FirstFit(Tok)].cls # "StringList") =>
        /\ "missing" \in diag'
        /\ pc' = "break"
        /\ args_' = args_
        /\ new_argv' = new_argv ]_vars

\* C9: when the value text of a matched Integer, Real or Choice option does not
\* coerce, the descriptor keeps its value, the occurrence does not turn set_ on,
\* an "invalid value" is reported unless the report itself ends the process,
\* and when tokens follow the value token the scan goes on with the first of them.
C9_InvalidValueContinues ==
  [][ LookedUp =>
        \A k \in 1..Len(args_) :
          LET arg  == args_[k]
              text == IF arg.attached_ THEN Rest(arg, Tok) ELSE argv[i + 2]
              n    == ValueTokens(arg)
          IN  ( /\ k = FirstFit(Tok)
                /\ arg.cls \in {"Integer", "Real", "Choice"}
                /\ i + 1 + n <= argc
                /\ ~Coerces(arg, text) )
              => /\ args_'[k].value_ = arg.value_
                 /\ ~arg.set_ => ~args_'[k].set_
                 /\ pc' # "break"
                 /\ pc' = "scan" => "invalid" \in diag'
                 /\ i + 1 + n < argc => (pc' = "scan" /\ i' = i + 1 + n) ]_vars

\* a call reported an invalid value for one option and set a later one
C9_Witness ==
  /\ pc = "done"
  /\ "invalid" \in diag
  /\ startSet = {}
  /\ \E k \in matched : ~args_[k].set_ /\ args_[k].value_ = args_[k].defval_
                          /\ args_[k].cls \in {"Integer", "Real", "Choice"}
  /\ \E k \in matched : args_[k].set_ /\ orig[Len(orig)] = args_[k].name_

\* C10 as stated: set_ goes from true to false only by resetSet.
C10_SetIsSticky ==
  [][ \A k \in 1..Len(args_) :
        (args_[k].set_ /\ ~args_'[k].set_) => (pc = "idle" /\ args_' = resetSet(args_)) ]_vars

\* C10 with the assignment of an invalid value as a second way to clear set_
C10_SetClearedOnlyByResetOrInvalid ==
  [][ \A k \in 1..Len(args_) :
        (args_[k].set_ /\ ~args_'[k].set_) =>
          \/ pc = "idle" /\ args_' = resetSet(args_)
          \/ LookedUp /\ k = FirstFit(Tok) /\ ("invalid" \in diag' \/ pc' = "crashed") ]_vars

\* C11: a resetSet call leaves set_ false on every descriptor and changes
\* nothing else: the number and order of the descriptors, and every field of each
\* other than set_ (value_ with an accumulated string list, name_, type_,
\* flags_), are as before; a second resetSet changes nothing.
C11_ResetSetFrame ==
  [][ (pc = "idle" /\ pc' = "idle") =>
        /\ Len(args_') = Len(args_)
        /\ \A k \in 1..Len(args_) :
             /\ ~args_'[k].set_
             /\ [ args_'[k] EXCEPT !.set_ = args_[k].set_ ] = args_[k]
        /\ resetSet(args_') = args_'
        /\ UNCHANGED << def_, skip_remaining_, help_ >> ]_vars

\* resetSet was called on a registry whose string list holds a value and whose
\* other set descriptor holds a value that is not its default
C11_Witness ==
  /\ pc = "idle"
  /\ \A k \in 1..Len(args_) : ~args_[k].set_
  /\ \E k \in everMatched : args_[k].cls = "StringList" /\ Len(args_[k].value_) = 1
  /\ \E k \in everMatched : args_[k].cls = "String" /\ args_[k].value_ # args_[k].defval_

\* the registry as the constructor made it, after a resetSet
Fresh == resetSet(setFormat(def_).args)

\* the descriptors agree on set_, and on value_ where set_ is true
SameSetAndValues(a, b) ==
  /\ Len(a) = Len(b)
  /\ \A k \in 1..Len(a) :
       /\ a[k].set_ = b[k].set_
       /\ a[k].set_ => a[k].value_ = b[k].value_

\* C12 as stated: a parse call that begins with every set_ false (as after
\* resetSet) returns the same value and leaves the same argument list, the same
\* set_ flags and the same values of the descriptors it set as the same call on
\* the registry with no earlier parse call.
C12_ParseIndependentOfHistory ==
  (pc = "done" /\ startSet = {} /\ ~oob) =>
    LET fresh == parse1(Fresh, entry, update, orig, FALSE)
    IN  ~fresh.ub =>
          /\ ret = fresh.ret
          /\ argv = fresh.argv
          /\ SameSetAndValues(args_, fresh.args)

\* C12 for registries without a string list
C12_ParseIndependentOfHistoryNoStringList ==
  (pc = "done" /\ startSet = {} /\ ~oob
     /\ \A k \in 1..Len(args_) : args_[k].cls # "StringList") =>
    LET fresh == parse1(Fresh, entry, update, orig, FALSE)
    IN  ~fresh.ub =>
          /\ ret = fresh.ret
          /\ argv = fresh.argv
          /\ SameSetAndValues(args_, fresh.args)

\* C13 as stated: a parse call through the argument array and the same call
\* through the string sequence (same registry, same token list, same compaction
\* choice) give the same return value, descriptors, help_ and token list.
C13_EntryPointsEquivalent ==
  [][ (pc = "idle" /\ pc' = "scan") =>
        LET array  == parse1(args_, "array", update', argv', help_)
            vector == parse1(args_, "vector", update', argv', help_)
        IN  (~array.ub /\ ~vector.ub) => array = vector ]_vars

\* C13 for token lists without a "--" token
C13_EntryPointsEquivalentNoDashDash ==
  [][ (pc = "idle" /\ pc' = "scan" /\ \A n \in 1..Len(argv') : argv'[n] # DashDashTok) =>
        LET array  == parse1(args_, "array", update', argv', help_)
            vector == parse1(args_, "vector", update', argv', help_)
        IN  (~array.ub /\ ~vector.ub) => array = vector ]_vars

\* the token list is the program name followed by one or more pairs of the
\* option token and a value token
OptionValuePairs(list, name) ==
  /\ Len(list) >= 3
  /\ Len(list) % 2 = 1
  /\ \A j \in 2..Len(list) : j % 2 = 0 => list[j] = name

\* the value tokens of such a list, in order of appearance
PairValues(list) == [ j \in 1..((Len(list) - 1) \div 2) |-> list[2 * j + 1] ]

\* C14 as stated: for an unattached string list that holds no value yet, a token
\* list in which the option appears n times, each time followed by one value
\* token, leaves exactly those n values in order in the list, and every
\* occurrence consumes its value token (a compacting parse of an option without
\* Skip leaves only the program name).
C14_StringListAccumulates ==
  [][ (pc = "idle" /\ pc' = "scan") =>
        \A k \in 1..Len(args_) :
          ( /\ args_[k].cls = "StringList"
            /\ ~args_[k].attached_
            /\ args_[k].value_ = << >>
            /\ FirstFit(args_[k].name_) = k
            /\ OptionValuePairs(argv', args_[k].name_) )
          => LET r == parse1(args_, entry', update', argv', help_)
             IN  ~r.ub =>
                   /\ r.args[k].set_
                   /\ r.args[k].value_ = PairValues(argv')
                   /\ (update' /\ ~getSkip(args_[k])) => r.argv = << argv'[1] >> ]_vars

\* C14 without the consumption of the value token, for one occurrence whose
\* value token does not start with '-'
C14_FirstValueStored ==
  [][ (pc = "idle" /\ pc' = "scan") =>
        \A k \in 1..Len(args_) :
          ( /\ args_[k].cls = "StringList"
            /\ ~args_[k].attached_
            /\ args_[k].value_ = << >>
            /\ FirstFit(args_[k].name_) = k
            /\ Len(argv') = 3
            /\ argv'[2] = args_[k].name_
            /\ At(argv'[3], 0) # "-" )
          => LET r == parse1(args_, entry', update', argv', help_)
             IN  ~r.ub => (r.args[k].set_ /\ r.args[k].value_ = << argv'[3] >>) ]_vars

C15_WitnessCase ==
  /\ pc = "done"
  /\ orig = << Prog, <<"-","c">>, <<"B">> >>
  /\ "invalid" \in diag
  /\ startSet = {}
  /\ \E k \in matched : args_[k].cls = "Choice" /\ ~args_[k].set_ /\ args_[k].value_ = 1

\* the list without its token at 0-based index n
Without(list, n) == SubSeq(list, 1, n) \o SubSeq(list, n + 2, Len(list))

\* C16: a "--help" token scanned while skip_remaining_ is false sets help_, adds
\* nothing to the compacted list, changes no descriptor and does not end the
\* scan; what the rest of the scan does to the descriptors and the compacted
\* list is what it would do were the token not in the list.
C16_HelpContinues ==
  [][ (pc = "scan" /\ i < argc /\ Tok = HelpTok /\ ~skip_remaining_) =>
        /\ help_'
        /\ new_argv' = new_argv
        /\ args_' = args_
        /\ pc' = "scan"
        /\ i' = i + 1
        /\ ScanLoop(args_', entry', update', argv', i', new_argv', skip_remaining_', help_')
             = ScanLoop(args_, entry, update, Without(argv, i), i, new_argv,
                        skip_remaining_, TRUE) ]_vars

\* a compacting call scanned "--help" and then matched and set an option: the
\* option's tokens (it has the Skip flag) are in the output, "--help" is not
C16_Witness ==
  /\ pc = "done"
  /\ update
  /\ orig = << Prog, HelpTok, <<"-","o">>, <<"v">> >>
  /\ argv = << Prog, <<"-","o">>, <<"v">> >>
  /\ help_
  /\ "usage" \in diag
  /\ \E k \in matched : args_[k].name_ = <<"-","o">> /\ args_[k].set_ /\ args_[k].value_ = <<"v">>

\* the texts of the records of a definition, in declaration order
RECURSIVE SplitAtSpaces(_, _, _)
SplitAtSpaces(s, cur, acc) ==
  IF s = << >> THEN (IF cur = << >> THEN acc ELSE Append(acc, cur))
  ELSE IF s[1] = " "
    THEN SplitAtSpaces(Tail(s), << >>, IF cur = << >> THEN acc ELSE Append(acc, cur))
    ELSE SplitAtSpaces(Tail(s), Append(cur, s[1]), acc)

RecordTexts(def) == SplitAtSpaces(def, << >>, << >>)

\* the record has no '=<value>' part
NoDefaultPart(rec) == \A k \in 1..Len(rec) : rec[k] # "="

\* C17: when a record has no '=<value>' part, the default and the initial value
\* of the compiled descriptor are 0 for Integer and Real, the empty string for
\* String and -1 for Choice
C17_DefaultsWithoutValue ==
  pc = "idle" =>
    \A k \in 1..Len(args_) :
      NoDefaultPart(RecordTexts(def_)[k]) =>
        CASE args_[k].cls = "Integer" -> args_[k].defval_ = 0 /\ args_[k].value_ = 0
          [] args_[k].cls = "Real"    -> /\ args_[k].defval_.num = 0
                                         /\ args_[k].value_ = args_[k].defval_
          [] args_[k].cls = "String"  -> args_[k].defval_ = << >> /\ args_[k].value_ = << >>
          [] args_[k].cls = "Choice"  -> args_[k].defval_ = -1 /\ args_[k].value_ = -1
          [] OTHER                    -> TRUE

\* C17 without the Choice case: Integer and Real start at 0, String starts empty
C17_DefaultsWithoutValueNoChoice ==
  pc = "idle" =>
    \A k \in 1..Len(args_) :
      NoDefaultPart(RecordTexts(def_)[k]) =>
        CASE args_[k].cls = "Integer" -> args_[k].defval_ = 0 /\ args_[k].value_ = 0
          [] args_[k].cls = "Real"    -> /\ args_[k].defval_.num = 0
                                         /\ args_[k].value_ = args_[k].defval_
          [] args_[k].cls = "String"  -> args_[k].defval_ = << >> /\ args_[k].value_ = << >>
          [] OTHER                    -> TRUE

\* C17, what the code does for a Choice record without '=<value>': it starts at 0
C17_ChoiceStartsAtZero ==
  pc = "idle" =>
    \A k \in 1..Len(args_) :
      (NoDefaultPart(RecordTexts(def_)[k]) /\ args_[k].cls = "Choice") =>
        args_[k].defval_ = 0 /\ args_[k].value_ = 0

KindChars == { "f", "i", "I", "r", "R", "s", "S", "c", "C" }

\* the record has a ':' and the character after it is no kind character
BadKind(rec) ==
  \E k \in 1..Len(rec) :
    /\ rec[k] = ":"
    /\ \A m \in 1..(k - 1) : rec[m] # ":"
    /\ (k = Len(rec) \/ rec[k + 1] \notin KindChars)

\* C18: a record whose character after ':' is not one of f, i, I, r, R, s, S, c, C
\* makes the compilation fail, and no descriptor is produced for that record
C18_BadKindFails ==
  pc = "idle" =>
    \A k \in 1..Len(RecordTexts(def_)) :
      BadKind(RecordTexts(def_)[k]) => formatError /\ Len(args_) < k

\* C18, what the code does: a definition of one such record compiles without a
\* failure to one Boolean descriptor
C18_BadKindIsFlag ==
  (pc = "idle" /\ Len(RecordTexts(def_)) = 1 /\ BadKind(RecordTexts(def_)[1])) =>
    ~formatError /\ Len(args_) = 1 /\ args_[1].cls = "Boolean"

\* the records of Records that fail to compile: a bad character, a count of 0,
\* a count other than 1 without Multiple, an invalid default for the kind
FailingRecords ==
  { <<"+","b">>, <<"-","z",":","i","0">>, <<"-","t",":","i","2">>,
    <<"-","e",":","i","=","x">> }

\* the positions of the failing records of a definition
Failing(def) ==
  { k \in 1..Len(RecordTexts(def)) : RecordTexts(def)[k] \in FailingRecords }

Min(S) == CHOOSE k \in S : \A m \in S : k <= m

C19_AllCompiled ==
  (pc = "idle" /\ Failing(def_) = {}) =>
    ~formatError /\ Len(args_) = Len(RecordTexts(def_))

\* the positions of the descriptors the token fits
FitsOf(tok) == { k \in 1..Len(args_) : Fits(args_[k], tok) }

\* C20: when the scanned token fits several descriptors (duplicate names, or an
\* attached name that is a prefix of another name), the value and set_ of every
\* one but the first in declaration order stay as they were, and the first is
\* the one assigned to (from the text that goes with the token, when it coerces)
C20_FirstMatchWins ==
  [][ ( /\ pc = "scan"
        /\ i < argc
        /\ ~PassesThrough(entry, Tok, skip_remaining_)
        /\ Cardinality(FitsOf(Tok)) >= 2 ) =>
        LET f    == Min(FitsOf(Tok))
            arg  == args_[f]
            has  == arg.cls = "Boolean" \/ arg.attached_ \/ i + 2 <= argc
            text == IF arg.attached_ THEN Rest(arg, Tok) ELSE argv[i + 2]
        IN  /\ \A k \in FitsOf(Tok) \ {f} :
                 /\ args_'[k].value_ = args_[k].value_
                 /\ args_'[k].set_ = args_[k].set_
            /\ (has /\ arg.cls # "StringList" /\ Coerces(arg, text)) =>
                 (args_'[f].set_ /\ args_'[f].value_ = Assigned(arg, text)) ]_vars

\* C20: "-c b -Ca" was parsed by a registry with a Choice "-c" before a String
\* "-c" and an attached Choice "-C" before a flag "-Ca": the two Choice
\* descriptors hold the indices, the String "-c" and the flag "-Ca" are untouched
C20_Witness ==
  /\ pc = "done"
  /\ orig = << Prog, <<"-","c">>, <<"b">>, <<"-","C","a">> >>
  /\ Len(args_) = 4
  /\ args_[1].cls = "Choice" /\ args_[4].cls = "String"
  /\ args_[1].name_ = args_[4].name_
  /\ args_[1].set_ /\ args_[1].value_ = 0
  /\ ~args_[4].set_ /\ args_[4].value_ = args_[4].defval_
  /\ args_[2].attached_ /\ args_[3].name_ = <<"-","C","a">>
  /\ args_[2].set_ /\ args_[2].value_ = 1
  /\ ~args_[3].set_ /\ args_[3].value_ = FALSE

\* C21: every parse call terminates: an iteration of the scan loop either
\* stops the scan or strictly increases the scan index, which starts at 1 and
\* stays within the list, so a list of n tokens takes at most n - 1 iterations
\* and no token is looked up twice; a call that has begun returns (or the
\* process ends in the read past the list)
C21_ParseTerminates ==
  /\ [][ pc = "scan" => (pc' # "scan" \/ (i < i' /\ i' <= argc /\ argv' = argv)) ]_vars
  /\ [](pc = "scan" => (IF argc = 0 THEN i = 0 ELSE 1 <= i /\ i <= argc))
  /\ (pc = "scan") ~> (pc \in {"done", "crashed"})

\* C21: a call on a list of MaxArgc tokens that assigned to a descriptor has
\* returned with the scan index at the end of the list
C21_Witness ==
  /\ pc = "done"
  /\ Len(orig) = MaxArgc
  /\ matched # {}
  /\ i = Len(orig)

\* C22: during a parse of n tokens neither the scan, nor a value setter, nor a
\* diagnostic reads a token at an index >= n
C22_NoReadPastEnd == ~oob /\ pc # "crashed"

\* C22, where the code does read past the list: only at the last token, when it
\* matches an unattached string list that is still empty (the setter is handed
\* no token) or an attached descriptor whose text does not coerce (the message
\* names argv[i] after ++i)
C22_ReadsPastEndOnlyAtLastToken ==
  [][ (~oob /\ oob') =>
        LET arg == args_[FirstMatch(args_, Tok)]
        IN  /\ i + 1 = argc
            /\ \/ arg.cls = "StringList" /\ ~arg.attached_ /\ arg.value_ = << >>
               \/ arg.attached_ /\ ~Coerces(arg, Rest(arg, Tok)) ]_vars

\* C22, the part that holds: the scan index never ends beyond the list
C22_IndexWithinList == pc \in {"scan", "break", "done", "crashed"} => i <= Len(orig)

\* C23: a compacting parse never lengthens the argument list: the list written
\* back has at most as many tokens as the list received
C23_NeverLengthens == (pc = "done" /\ update) => Len(argv) <= Len(orig)

\* the scanned token is handled as a cluster of flags
IsCluster ==
  /\ Candidate
  /\ FirstMatch(args_, Tok) = 0
  /\ single_letter_flag(args_)
  /\ ClusterFound(args_, Tok)

\* C23, the part that holds: an iteration that does not handle a cluster of
\* flags pushes at most as many tokens as it steps over
C23_GrowsOnlyInCluster ==
  [][ (pc = "scan" /\ pc' = "scan" /\ ~IsCluster) =>
        Len(new_argv') - Len(new_argv) <= i' - i ]_vars

\* C23, what the code does with a cluster: one fresh token for every character
\* and every two-character flag with Skip that has that letter
C23_ClusterPushes ==
  [][ (pc = "scan" /\ update /\ IsCluster) =>
        Len(new_argv') - Len(new_argv)
          = Cardinality({ jk \in (2..Len(Tok)) \X (1..Len(args_)) :
                            /\ IsFlag(args_[jk[2]])
                            /\ getSkip(args_[jk[2]])
                            /\ args_[jk[2]].name_[2] = Tok[jk[1]] }) ]_vars

=============================================================================
